---- MODULE Spec2Model ----
(***************************************************************************)
(* Model of the QEMU launch and test supervision at the end of main()      *)
(* (src/src/main.rs, lines 86-125) together with the settings produced by  *)
(* read_config (src/src/config.rs).                                        *)
(*                                                                         *)
(* Time is counted in whole seconds since the child was spawned.  The      *)
(* child is an external process that exits on its own after `runtime`      *)
(* seconds with `child_code` (<<>> when it is terminated by a signal and   *)
(* ExitStatus::code() is None).  Option<T> values are modelled as          *)
(* sequences: <<>> is None and <<v>> is Some(v).                           *)
(***************************************************************************)
EXTENDS Integers, Sequences, FiniteSets, TLC

\* ---------------------------------------------------------------- bounds
MaxTimeout == 2
MaxRuntime == 3
MaxCode == 2

MaxTime == MaxTimeout + MaxRuntime + 1

\* ------------------------------------------------------ program constants
\* Config::new: test_timeout: 300
DefaultTimeout == 300
\* status of a process whose main returns Err(_)
ErrStatus == 1
\* status of a process that panics (`.expect("QEMU system-x86_64 failed")`)
PanicStatus == 101

\* ------------------------------------------------------------ value sets
Codes == 0 .. MaxCode
OptCodes == {<<>>} \cup {<<c>> : c \in Codes}
OptTimeouts == {<<>>} \cup {<<t>> : t \in 0 .. MaxTimeout}

\* Option::unwrap_or
unwrap_or(opt, d) == IF opt = <<>> THEN d ELSE opt[1]

VARIABLES
    is_test,                 \* executables[0].parent() ends with "deps"
    toml_timeout,            \* `test-timeout` key of Cargo.toml, if present
    test_success_exit_code,  \* config.test_success_exit_code
    runtime,                 \* seconds after which the child exits by itself
    child_code,              \* ExitStatus::code() of the child's natural exit
    now,                     \* seconds elapsed since spawn
    pc,                      \* position of main
    child,                   \* "none" | "running" | "zombie" | "reaped"
    outcome,                 \* "Running" | "Completed" | "TimedOut"
    exit_code,               \* code() of the status wait_timeout returned
    result,                  \* how main ended
    exit_status,             \* exit status of the invocation's own process
    calls,                   \* the calls made on the child handle, in order
    reaps                    \* number of times the child became reaped

vars == <<is_test, toml_timeout, test_success_exit_code, runtime, child_code,
          now, pc, child, outcome, exit_code, result, exit_status, calls,
          reaps>>

inputs == <<is_test, toml_timeout, test_success_exit_code, runtime, child_code>>

\* -------------------------------------------------------------- settings
\* read_config: test_timeout is Config::new()'s 300 unless the key is set
test_timeout == unwrap_or(toml_timeout, DefaultTimeout)

\* let timeout = Duration::from_secs(config.test_timeout.into());
timeoutMutShort == IF test_timeout > 0 THEN test_timeout - 1 ELSE 0
timeout == test_timeout

\* if is_test { ... }
SupervisedMutAlways == TRUE
Supervised == is_test

\* config.test_success_exit_code.unwrap_or(0) != exit_code.code().unwrap_or_else(|| 0)
MismatchMutDefault(expected, code) == unwrap_or(expected, 1) # unwrap_or(code, 0)
Mismatch(expected, code) == unwrap_or(expected, 0) # unwrap_or(code, 0)

\* std::process::exit(exit_code.code().unwrap_or_else(|| 0)): the status the
\* parent of the invocation observes is the low 8 bits of the argument
ExitWithMutFailure(code) == ErrStatus
ExitWith(code) == unwrap_or(code, 0) % 256

Count(s, x) == Cardinality({i \in 1 .. Len(s) : s[i] = x})

\* ------------------------------------------------------------------ Init
Init ==
    /\ is_test \in BOOLEAN
    /\ toml_timeout \in OptTimeouts
    /\ test_success_exit_code \in OptCodes
    /\ runtime \in 0 .. MaxRuntime
    /\ child_code \in OptCodes
    /\ now = 0
    /\ pc = "spawn"
    /\ child = "none"
    /\ outcome = "Running"
    /\ exit_code = <<>>
    /\ result = "none"
    /\ exit_status = -1
    /\ calls = <<>>
    /\ reaps = 0

\* --------------------------------------------------------------- helpers
Finish(r, s) ==
    /\ pc' = "done"
    /\ result' = r
    /\ exit_status' = s

\* ------------------------------------------------------------ the child
\* the child exits by itself `runtime` seconds after it was spawned
ChildExit ==
    /\ child = "running"
    /\ now = runtime
    /\ child' = "zombie"
    /\ UNCHANGED <<inputs, now, pc, outcome, exit_code, result, exit_status,
                   calls, reaps>>

\* one second passes.  main takes time only where it blocks (wait_timeout,
\* wait) and time goes on after it has ended; the child does not outlive its
\* runtime and a pending wait_timeout does not outlast its duration.
Tick ==
    /\ child # "none"
    /\ pc \in {"wait_timeout", "reap", "done"}
    /\ now < MaxTime
    /\ ~(child = "running" /\ now = runtime)
    /\ ~(pc = "wait_timeout" /\ child = "running" /\ now >= timeout)
    /\ now' = now + 1
    /\ UNCHANGED <<inputs, pc, child, outcome, exit_code, result, exit_status,
                   calls, reaps>>

\* ----------------------------------------------------------------- main
\* Command::new("qemu-system-x86_64")....spawn().expect(...)
Spawn ==
    /\ pc = "spawn"
    /\ \E ok \in BOOLEAN :
         IF ok
         THEN /\ child' = "running"
              /\ calls' = Append(calls, "spawn")
              /\ pc' = "branch"
              /\ UNCHANGED <<result, exit_status>>
         ELSE /\ Finish("Panic", PanicStatus)
              /\ UNCHANGED <<child, calls>>
    /\ UNCHANGED <<inputs, now, outcome, exit_code, reaps>>

\* if is_test { match output.wait_timeout(timeout) ... }
EnterTest ==
    /\ pc = "branch"
    /\ Supervised
    /\ pc' = "wait_timeout"
    /\ UNCHANGED <<inputs, now, child, outcome, exit_code, result,
                   exit_status, calls, reaps>>

\* is_test is false: main falls through to Ok(())
ReturnOk ==
    /\ pc = "branch"
    /\ ~Supervised
    /\ Finish("Ok", 0)
    /\ UNCHANGED <<inputs, now, child, outcome, exit_code, calls, reaps>>

\* wait_timeout returns Ok(Some(status)): the child has exited and is reaped
WaitTimeoutSome ==
    /\ pc = "wait_timeout"
    /\ child = "zombie"
    /\ child' = "reaped"
    /\ reaps' = reaps + 1
    /\ calls' = Append(calls, "wait_timeout")
    /\ outcome' = "Completed"
    /\ exit_code' = child_code
    /\ pc' = "compare"
    /\ UNCHANGED <<inputs, now, result, exit_status>>

\* variant of WaitTimeoutNone: the None arm forgets output.kill()
WaitTimeoutNoneMutNoKill ==
    /\ pc = "wait_timeout"
    /\ child = "running"
    /\ now >= timeout
    /\ calls' = Append(calls, "wait_timeout")
    /\ outcome' = "TimedOut"
    /\ pc' = "reap"
    /\ UNCHANGED <<inputs, now, child, exit_code, result, exit_status, reaps>>

\* wait_timeout returns Ok(None): the duration elapsed, the child still runs
WaitTimeoutNone ==
    /\ pc = "wait_timeout"
    /\ child = "running"
    /\ now >= timeout
    /\ calls' = Append(calls, "wait_timeout")
    /\ outcome' = "TimedOut"
    /\ pc' = "kill"
    /\ UNCHANGED <<inputs, now, child, exit_code, result, exit_status, reaps>>

\* wait_timeout returns Err(_): .context("Failed to wait with timeout")?
WaitTimeoutErr ==
    /\ pc = "wait_timeout"
    /\ calls' = Append(calls, "wait_timeout")
    /\ Finish("ErrWaitTimeout", ErrStatus)
    /\ UNCHANGED <<inputs, now, child, outcome, exit_code, reaps>>

\* Some(exit_code) => { if ... != ... { std::process::exit(...) } }  Ok(())
Compare ==
    /\ pc = "compare"
    /\ IF Mismatch(test_success_exit_code, exit_code)
       THEN Finish("Exit", ExitWith(exit_code))
       ELSE Finish("Ok", 0)
    /\ UNCHANGED <<inputs, now, child, outcome, exit_code, calls, reaps>>

\* output.kill().context("Failed to kill QEMU")?
Kill ==
    /\ pc = "kill"
    /\ calls' = Append(calls, "kill")
    /\ \E ok \in BOOLEAN :
         IF ok
         THEN /\ child' = IF child = "running" THEN "zombie" ELSE child
              /\ pc' = "reap"
              /\ UNCHANGED <<result, exit_status>>
         ELSE /\ Finish("ErrKill", ErrStatus)
              /\ UNCHANGED child
    /\ UNCHANGED <<inputs, now, outcome, exit_code, reaps>>

\* variant of Reap: the None arm ends in Ok(()) instead of the timeout error
ReapMutSuccess ==
    /\ pc = "reap"
    /\ child = "zombie"
    /\ calls' = Append(calls, "wait")
    /\ \E ok \in BOOLEAN :
         IF ok
         THEN /\ child' = "reaped"
              /\ reaps' = reaps + 1
              /\ Finish("Ok", 0)
         ELSE /\ Finish("ErrWait", ErrStatus)
              /\ UNCHANGED <<child, reaps>>
    /\ UNCHANGED <<inputs, now, outcome, exit_code>>

\* variant of Reap: the None arm returns the timeout error without output.wait()
ReapMutNoWait ==
    /\ pc = "reap"
    /\ child = "zombie"
    /\ Finish("ErrTimedOut", ErrStatus)
    /\ UNCHANGED <<inputs, now, child, outcome, exit_code, calls, reaps>>

\* variant of Reap: the result of output.wait() is discarded (`let _ = ...`)
ReapMutNonFatal ==
    /\ pc = "reap"
    /\ child = "zombie"
    /\ calls' = Append(calls, "wait")
    /\ \E ok \in BOOLEAN :
         IF ok
         THEN /\ child' = "reaped"
              /\ reaps' = reaps + 1
         ELSE UNCHANGED <<child, reaps>>
    /\ Finish("ErrTimedOut", ErrStatus)
    /\ UNCHANGED <<inputs, now, outcome, exit_code>>

\* output.wait().context("Failed to wait for QEMU process")?;
\* return Err(anyhow!("Test timed out"));
Reap ==
    /\ pc = "reap"
    /\ child = "zombie"
    /\ calls' = Append(calls, "wait")
    /\ \E ok \in BOOLEAN :
         IF ok
         THEN /\ child' = "reaped"
              /\ reaps' = reaps + 1
              /\ Finish("ErrTimedOut", ErrStatus)
         ELSE /\ Finish("ErrWait", ErrStatus)
              /\ UNCHANGED <<child, reaps>>
    /\ UNCHANGED <<inputs, now, outcome, exit_code>>

Next ==
    \/ ChildExit
    \/ Tick
    \/ Spawn
    \/ EnterTest
    \/ ReturnOk
    \/ WaitTimeoutSome
    \/ WaitTimeoutNone
    \/ WaitTimeoutErr
    \/ Compare
    \/ Kill
    \/ Reap

Spec == Init /\ [][Next]_vars

TypeOK ==
    /\ is_test \in BOOLEAN
    /\ now \in 0 .. MaxTime
    /\ pc \in {"spawn", "branch", "wait_timeout", "compare", "kill", "reap", "done"}
    /\ child \in {"none", "running", "zombie", "reaped"}
    /\ outcome \in {"Running", "Completed", "TimedOut"}
    /\ result \in {"none", "Ok", "Exit", "ErrWaitTimeout", "ErrKill", "ErrWait",
                   "ErrTimedOut", "Panic"}

\* ---------------------------------------------------------------- claims
Done == pc = "done"
Spawned == Count(calls, "spawn") > 0
Issued(c) == Count(calls, c) > 0
Failures == {"Panic", "ErrWaitTimeout", "ErrKill", "ErrWait", "ErrTimedOut"}

\* position of the first call c in the log (0 when absent)
FirstIndex(c) ==
    IF Issued(c)
    THEN CHOOSE i \in 1 .. Len(calls) :
           calls[i] = c /\ \A j \in 1 .. (i - 1) : calls[j] # c
    ELSE 0

C2_MatchSucceeds ==
    (Done /\ is_test /\ outcome = "Completed" /\ exit_code # <<>>
          /\ exit_code[1] = unwrap_or(test_success_exit_code, 0)) =>
        /\ result = "Ok"
        /\ exit_status = 0
        /\ ~Issued("kill")

C2_Witness ==
    /\ Done /\ is_test /\ outcome = "Completed"
    /\ test_success_exit_code = <<>>
    /\ exit_code = <<0>>
    /\ result = "Ok"

\* C3: in test mode, a child that exited before the deadline with a code
\* different from the expected one makes the invocation end through
\* process exit with exactly the child's code as its status.
C3_MismatchPropagates ==
    (Done /\ is_test /\ outcome = "Completed" /\ exit_code # <<>>
          /\ exit_code[1] # unwrap_or(test_success_exit_code, 0)) =>
        /\ result = "Exit"
        /\ exit_status = exit_code[1]

C3_Witness ==
    /\ Done /\ is_test /\ outcome = "Completed"
    /\ exit_code = <<2>>
    /\ test_success_exit_code = <<1>>
    /\ exit_status = 2

C5_Original ==
    (Done /\ ~is_test /\ Spawned) =>
        /\ child # "running"
        /\ result = "Ok"

\* C5 (amended): in run mode the invocation makes no call on the child
\* after the spawn (no timed wait, no kill, no wait, no code comparison)
\* and returns Ok with status 0 whatever the child does.
C5_RunModeBypass ==
    (~is_test /\ Spawned) =>
        /\ calls = <<"spawn">>
        /\ outcome = "Running"
        /\ reaps = 0
        /\ pc \in {"branch", "done"}
        /\ Done => (result = "Ok" /\ exit_status = 0)

C5_Witness ==
    /\ Done /\ ~is_test
    /\ child = "zombie"
    /\ child_code = <<2>>
    /\ result = "Ok"
    /\ exit_status = 0

\* C6: the exit status of a timeout, launch or cleanup failure is non-zero
\* and differs from every status a mismatched child code can propagate.
C6_Distinguishable ==
    (Done /\ result \in Failures) =>
        /\ exit_status # 0
        /\ \A c \in Codes :
             (\E e \in OptCodes : Mismatch(e, <<c>>)) =>
                 ExitWith(<<c>>) # exit_status

C10_StatusZeroOnlyOnMatch ==
    (Done /\ is_test /\ exit_status = 0) =>
        /\ outcome = "Completed"
        /\ unwrap_or(exit_code, 0) = unwrap_or(test_success_exit_code, 0)
====
